---- MODULE Spec2Model ----
(***************************************************************************)
(* Model of convert_images.py: a batch converter that scans one directory  *)
(* for *.png, *.jpg and *.jpeg files and writes a .webp sibling for each,  *)
(* optionally deleting the source.                                         *)
(*                                                                         *)
(* File names are sequences of character codes, so that globbing, suffix   *)
(* replacement and the lexicographic sort are computed, not assumed.       *)
(* The directory is a function from the names present to their contents.   *)
(***************************************************************************)
EXTENDS Integers, Sequences, FiniteSets, TLC

VARIABLES
    dir,             \* the root directory: name -> content
    dir0,            \* the directory as it was when the run started
    quality,         \* args.quality
    delete_original, \* args.delete_original
    pc,              \* position of the run
    source_files,    \* the sorted list built on line 26
    idx,             \* 1-based position of the for loop in source_files
    img,             \* mode of the image opened on line 30, "none" when closed
    converted,       \* the list built by convert_images_to_webp
    result,          \* main's `converted`, set when the function returns
    returned,        \* TRUE once convert_images_to_webp has returned
    stdout,          \* the lines printed by main
    err,             \* "" or the kind of the exception that is propagating
    opened,          \* names passed to Image.open so far
    unlinked,        \* names passed to unlink so far
    writes           \* log of the completed out.save calls

vars == <<dir, dir0, quality, delete_original, pc, source_files, idx, img,
          converted, result, returned, stdout, err, opened, unlinked, writes>>

----------------------------------------------------------------------------
(* Bounds and inputs *)

\* largest number of files in the directory at the start of a run
MaxFiles == 3

\* --quality default
DefaultQuality == 82

\* the quality values a run is started with: the default and one the encoder rejects
Qualities == {DefaultQuality, DefaultQuality + 19}

\* image modes a decoded source file can have
Modes == {"RGB", "RGBA", "P", "L", "LA"}

\* suffixes, as character codes
DotPng  == <<46, 112, 110, 103>>
DotJpg  == <<46, 106, 112, 103>>
DotJpeg == <<46, 106, 112, 101, 103>>
DotWebp == <<46, 119, 101, 98, 112>>
DotGif  == <<46, 103, 105, 102>>
DotPNG  == <<46, 80, 78, 71>>

\* the file names a directory is drawn from:
\* a.png a.jpg b.jpg c.jpeg (sources), a.webp d.gif b.PNG (not sources)
Universe ==
    { <<97>> \o DotPng, <<97>> \o DotJpg, <<98>> \o DotJpg, <<99>> \o DotJpeg,
      <<97>> \o DotWebp, <<100>> \o DotGif, <<98>> \o DotPNG }

----------------------------------------------------------------------------
(* File contents *)

Img(mode)       == [fmt |-> "image",   mode |-> mode,   src |-> <<>>]
Corrupt         == [fmt |-> "corrupt", mode |-> "none", src |-> <<>>]
Other           == [fmt |-> "other",   mode |-> "none", src |-> <<>>]
Webp(mode, src) == [fmt |-> "webp",    mode |-> mode,   src |-> src]
Partial(src)    == [fmt |-> "partial", mode |-> "none", src |-> src]

----------------------------------------------------------------------------
(* Path helpers *)

EndsWith(name, suf) ==
    /\ Len(name) >= Len(suf)
    /\ SubSeq(name, Len(name) - Len(suf) + 1, Len(name)) = suf

\* upper-case ASCII letters folded to lower case
Lower(name) == [i \in 1..Len(name) |->
                  IF name[i] >= 65 /\ name[i] <= 90 THEN name[i] + 32 ELSE name[i]]

GlobMatchNoCase(name, suf) == EndsWith(Lower(name), suf)

\* fnmatch of the pattern "*<suf>" against a file name (case-sensitive)
GlobMatch(name, suf) == EndsWith(name, suf)

\* root.glob("*<suf>"): the names in d that match
Glob(d, suf) == {n \in DOMAIN d : GlobMatch(n, suf)}

\* a directory listing comes in no particular order
Orderings(S) ==
    {s \in [1..Cardinality(S) -> S] : {s[i] : i \in 1..Cardinality(S)} = S}

\* position of the last "." of a name, 0 when there is none
LastDot(name) ==
    IF \E i \in 1..Len(name) : name[i] = 46
    THEN CHOOSE i \in 1..Len(name) :
            /\ name[i] = 46
            /\ \A j \in (i+1)..Len(name) : name[j] # 46
    ELSE 0

\* PurePath.suffix: from the last dot, unless the dot leads or ends the name
Suffix(name) ==
    IF LastDot(name) > 1 /\ LastDot(name) < Len(name)
    THEN SubSeq(name, LastDot(name), Len(name))
    ELSE <<>>

\* PurePath.with_suffix
WithSuffix(name, suf) ==
    SubSeq(name, 1, Len(name) - Len(Suffix(name))) \o suf

\* str < str, by character code
RECURSIVE PathLess(_, _)
PathLess(a, b) ==
    IF b = <<>> THEN FALSE
    ELSE IF a = <<>> THEN TRUE
    ELSE IF Head(a) < Head(b) THEN TRUE
    ELSE IF Head(a) > Head(b) THEN FALSE
    ELSE PathLess(Tail(a), Tail(b))

RECURSIVE Insert(_, _)
Insert(x, s) ==
    IF s = <<>> THEN <<x>>
    ELSE IF PathLess(x, Head(s)) THEN <<x>> \o s
    ELSE <<Head(s)>> \o Insert(x, Tail(s))

Unsorted(s) == s

\* sorted(...)
RECURSIVE Sorted(_)
Sorted(s) == IF s = <<>> THEN <<>> ELSE Insert(Head(s), Sorted(Tail(s)))

SourceFilesNoJpeg(pngs, jpgs, jpegs) == Sorted(pngs \o jpgs)

\* line 26: the three listings merged, then sorted
SourceFiles(pngs, jpgs, jpegs) == Sorted(pngs \o jpgs \o jpegs)

----------------------------------------------------------------------------
(* Image and file-system helpers *)

\* lines 31-34: the mode the image is converted to
ConvertMode(mode) == IF mode \in {"RGBA", "P"} THEN "RGBA" ELSE "RGB"

\* the WEBP encoder accepts quality 0..100
QualityAccepted(q) == q >= 0 /\ q <= 100

SaveFileLost(d, name, content) == d

\* a file created or overwritten
SaveFile(d, name, content) ==
    [n \in DOMAIN d \cup {name} |-> IF n = name THEN content ELSE d[n]]

\* what a failed save can leave behind: nothing changed, or a truncated file
FailedSaveOutcomes(d, name, src) == {d, SaveFile(d, name, Partial(src))}

RemoveFileKept(d, name) == d

\* Path.unlink
RemoveFile(d, name) == [n \in DOMAIN d \ {name} |-> d[n]]

NextAfterSaveAlways(del) == "unlink"

\* line 36
NextAfterSave(del) == IF del THEN "unlink" ELSE "append"

AfterErrorSwallowed == "append"
AfterErrorUnlink    == "unlink"
AfterErrorPrint     == "print"

\* no try/except anywhere: an exception leaves the loop, the function and main
AfterError == "aborted"

----------------------------------------------------------------------------
(* Initial states *)

IsSourceName(n) ==
    EndsWith(n, DotPng) \/ EndsWith(n, DotJpg) \/ EndsWith(n, DotJpeg)

AllContents == {Img(m) : m \in Modes} \cup {Corrupt, Other}

AllowedContent(n) ==
    IF IsSourceName(n) THEN {Img(m) : m \in Modes} \cup {Corrupt} ELSE {Other}

InitialDirs ==
    UNION { {f \in [S -> AllContents] : \A n \in S : f[n] \in AllowedContent(n)} :
            S \in {T \in SUBSET Universe : Cardinality(T) <= MaxFiles} }

Init ==
    /\ dir0 \in InitialDirs
    /\ dir = dir0
    /\ quality \in Qualities
    /\ delete_original \in BOOLEAN
    /\ pc = "scan"
    /\ source_files = <<>>
    /\ idx = 0
    /\ img = "none"
    /\ converted = <<>>
    /\ result = <<>>
    /\ returned = FALSE
    /\ stdout = <<>>
    /\ err = ""
    /\ opened = {}
    /\ unlinked = {}
    /\ writes = <<>>

----------------------------------------------------------------------------
(* Actions *)

source_path == source_files[idx]
webp_path   == WithSuffix(source_path, DotWebp)

\* lines 26-27
Scan ==
    /\ pc = "scan"
    /\ \E pngs \in Orderings(Glob(dir, DotPng)),
          jpgs \in Orderings(Glob(dir, DotJpg)),
          jpegs \in Orderings(Glob(dir, DotJpeg)) :
          source_files' = SourceFiles(pngs, jpgs, jpegs)
    /\ converted' = <<>>
    /\ idx' = 1
    /\ pc' = "loop"
    /\ UNCHANGED <<dir, dir0, quality, delete_original, img, result, returned,
                   stdout, err, opened, unlinked, writes>>

\* lines 28-30: next file, Image.open succeeds
Open ==
    /\ pc = "loop"
    /\ idx <= Len(source_files)
    /\ source_path \in DOMAIN dir
    /\ dir[source_path].fmt = "image"
    /\ img' = dir[source_path].mode
    /\ opened' = opened \cup {source_path}
    /\ pc' = "save"
    /\ UNCHANGED <<dir, dir0, quality, delete_original, source_files, idx,
                   converted, result, returned, stdout, err, unlinked, writes>>

\* line 30: Image.open raises on a file that is not an image
OpenFail ==
    /\ pc = "loop"
    /\ idx <= Len(source_files)
    /\ source_path \in DOMAIN dir
    /\ dir[source_path].fmt # "image"
    /\ opened' = opened \cup {source_path}
    /\ err' = "decode"
    /\ pc' = AfterError
    /\ UNCHANGED <<dir, dir0, quality, delete_original, source_files, idx, img,
                   converted, result, returned, stdout, unlinked, writes>>

\* lines 31-35: convert and save, the with block closes the image
Save ==
    /\ pc = "save"
    /\ QualityAccepted(quality)
    /\ dir' = SaveFile(dir, webp_path, Webp(ConvertMode(img), source_path))
    /\ writes' = Append(writes, [src |-> source_path, dst |-> webp_path,
                                 inMode |-> img, outMode |-> ConvertMode(img)])
    /\ img' = "none"
    /\ pc' = NextAfterSave(delete_original)
    /\ UNCHANGED <<dir0, quality, delete_original, source_files, idx, converted,
                   result, returned, stdout, err, opened, unlinked>>

\* line 35: the encoder rejects the quality
SaveEncodeFail ==
    /\ pc = "save"
    /\ ~QualityAccepted(quality)
    /\ dir' \in FailedSaveOutcomes(dir, webp_path, source_path)
    /\ img' = "none"
    /\ err' = "encode"
    /\ pc' = AfterError
    /\ UNCHANGED <<dir0, quality, delete_original, source_files, idx, converted,
                   result, returned, stdout, opened, unlinked, writes>>

\* line 35: the file system refuses the write
SaveWriteFail ==
    /\ pc = "save"
    /\ QualityAccepted(quality)
    /\ dir' \in FailedSaveOutcomes(dir, webp_path, source_path)
    /\ img' = "none"
    /\ err' = "write"
    /\ pc' = AfterError
    /\ UNCHANGED <<dir0, quality, delete_original, source_files, idx, converted,
                   result, returned, stdout, opened, unlinked, writes>>

\* line 37
Unlink ==
    /\ pc = "unlink"
    /\ dir' = RemoveFile(dir, source_path)
    /\ unlinked' = unlinked \cup {source_path}
    /\ pc' = "append"
    /\ UNCHANGED <<dir0, quality, delete_original, source_files, idx, img,
                   converted, result, returned, stdout, err, opened, writes>>

\* line 37: the file system refuses the removal
UnlinkFail ==
    /\ pc = "unlink"
    /\ err' = "unlink"
    /\ pc' = AfterError
    /\ UNCHANGED <<dir, dir0, quality, delete_original, source_files, idx, img,
                   converted, result, returned, stdout, opened, unlinked, writes>>

\* line 38, then back to line 28
AppendPair ==
    /\ pc = "append"
    /\ converted' = Append(converted, <<source_path, webp_path>>)
    /\ idx' = idx + 1
    /\ pc' = "loop"
    /\ UNCHANGED <<dir, dir0, quality, delete_original, source_files, img,
                   result, returned, stdout, err, opened, unlinked, writes>>

\* line 39 and line 45
Return ==
    /\ pc = "loop"
    /\ idx > Len(source_files)
    /\ result' = converted
    /\ returned' = TRUE
    /\ pc' = "print"
    /\ UNCHANGED <<dir, dir0, quality, delete_original, source_files, idx, img,
                   converted, stdout, err, opened, unlinked, writes>>

\* lines 46-47
PrintLine ==
    /\ pc = "print"
    /\ Len(stdout) < Len(result)
    /\ stdout' = Append(stdout, <<"pair", result[Len(stdout) + 1][1],
                                  result[Len(stdout) + 1][2]>>)
    /\ UNCHANGED <<dir, dir0, quality, delete_original, pc, source_files, idx,
                   img, converted, result, returned, err, opened, unlinked, writes>>

\* line 48
PrintCount ==
    /\ pc = "print"
    /\ Len(stdout) = Len(result)
    /\ stdout' = Append(stdout, <<"converted", Len(result)>>)
    /\ pc' = "done"
    /\ UNCHANGED <<dir, dir0, quality, delete_original, source_files, idx, img,
                   converted, result, returned, err, opened, unlinked, writes>>

Next ==
    \/ Scan
    \/ Open
    \/ OpenFail
    \/ Save
    \/ SaveEncodeFail
    \/ SaveWriteFail
    \/ Unlink
    \/ UnlinkFail
    \/ AppendPair
    \/ Return
    \/ PrintLine
    \/ PrintCount

Spec == Init /\ [][Next]_vars

----------------------------------------------------------------------------
(* Properties *)

APng  == <<97>> \o DotPng
AJpg  == <<97>> \o DotJpg
BJpg  == <<98>> \o DotJpg
CJpeg == <<99>> \o DotJpeg
AWebp == <<97>> \o DotWebp
DGif  == <<100>> \o DotGif
BPNG  == <<98>> \o DotPNG

\* the matching files present when the run started
MatchingAtScan == {n \in DOMAIN dir0 : IsSourceName(n)}

AllValidAtScan == \A n \in MatchingAtScan : dir0[n].fmt = "image"

ResultSources == {result[i][1] : i \in 1..Len(result)}

\* C1: when every matching file is a valid image, no decode error occurs, and
\* a run that returns has exactly one result entry per matching file found
\* at scan time, whatever delete_original is.
C1_OneEntryPerMatchingFile ==
    AllValidAtScan =>
        /\ err # "decode"
        /\ returned =>
              /\ Len(result) = Cardinality(MatchingAtScan)
              /\ ResultSources = MatchingAtScan

C1_Witness ==
    /\ returned
    /\ AllValidAtScan
    /\ delete_original
    /\ Len(result) = 3

Ascending(s, key(_)) ==
    \A i, j \in 1..Len(s) : i < j => PathLess(key(s[i]), key(s[j]))

PairSrc(p)  == p[1]
LineSrc(l)  == l[2]
WriteSrc(w) == w.src
Self(x)     == x

PairLines == SelectSeq(stdout, LAMBDA l : l[1] = "pair")

\* C2: the result sequence, the printed 'src -> dst' lines and the order in
\* which files are processed are all ascending by full path, extensions mixed.
C2_AscendingOrder ==
    /\ Ascending(source_files, Self)
    /\ Ascending(converted, PairSrc)
    /\ Ascending(result, PairSrc)
    /\ Ascending(PairLines, LineSrc)
    /\ Ascending(writes, WriteSrc)
    /\ \A i \in 1..Len(converted) : converted[i][1] = source_files[i]

C2_Witness ==
    /\ pc = "done"
    /\ stdout = << <<"pair", APng, AWebp>>,
                   <<"pair", BJpg, <<98>> \o DotWebp>>,
                   <<"pair", CJpeg, <<99>> \o DotWebp>>,
                   <<"converted", 3>> >>

\* C3: without delete_original every source file found at scan time is still
\* there, with its content, in every state of the run, aborted runs included.
C3_OriginalsKept ==
    ~delete_original =>
        /\ unlinked = {}
        /\ \A n \in MatchingAtScan : n \in DOMAIN dir /\ dir[n] = dir0[n]

C3_Witness ==
    /\ ~delete_original
    /\ err = "write"
    /\ Len(converted) >= 1
    /\ Cardinality(MatchingAtScan) = 3

\* C4 as stated: without delete_original a finished run has added exactly
\* as many files as it converted.
C4_CountGrowsByConverted ==
    (~delete_original /\ pc = "done") =>
        Cardinality(DOMAIN dir) = Cardinality(DOMAIN dir0) + Len(result)

NewDestinations == {result[i][2] : i \in 1..Len(result)} \ DOMAIN dir0

\* C4 amended: without delete_original a finished run has added exactly as
\* many files as there are distinct destination names in the result that
\* did not exist at scan time.
C4_CountGrowsByNewDestinations ==
    (~delete_original /\ pc = "done") =>
        Cardinality(DOMAIN dir) = Cardinality(DOMAIN dir0) + Cardinality(NewDestinations)

C4_Witness ==
    /\ ~delete_original
    /\ pc = "done"
    /\ Len(result) = 2
    /\ APng \in DOMAIN dir0
    /\ AJpg \in DOMAIN dir0
    /\ Cardinality(DOMAIN dir) = Cardinality(DOMAIN dir0) + 1

\* C5: with delete_original, the source of every recorded pair is gone from
\* the directory from the moment the pair is appended onwards.
C5_ConvertedOriginalsGone ==
    delete_original =>
        /\ \A i \in 1..Len(converted) : converted[i][1] \notin DOMAIN dir
        /\ \A i \in 1..Len(result) : result[i][1] \notin DOMAIN dir

C5_Witness ==
    /\ delete_original
    /\ pc = "done"
    /\ Len(result) >= 2

WrittenFrom(n) == \E i \in 1..Len(writes) : writes[i].src = n

\* C6: an error stops the batch at the file that failed: the files before it
\* are converted (and removed under delete_original), the files after it are
\* untouched.
C6_FirstErrorAborts ==
    err # "" =>
        /\ pc = "aborted"
        /\ idx \in 1..Len(source_files)
        /\ Len(converted) = idx - 1
        /\ \A j \in 1..(idx - 1) :
              /\ WrittenFrom(source_files[j])
              /\ converted[j][2] \in DOMAIN dir
              /\ delete_original => source_files[j] \notin DOMAIN dir
        /\ \A j \in (idx + 1)..Len(source_files) :
              /\ source_files[j] \in DOMAIN dir
              /\ dir[source_files[j]] = dir0[source_files[j]]
              /\ source_files[j] \notin opened
              /\ source_files[j] \notin unlinked
              /\ ~WrittenFrom(source_files[j])

C6_Witness ==
    /\ err # ""
    /\ pc = "aborted"
    /\ delete_original
    /\ idx = 2
    /\ Len(source_files) = 3

\* modes that carry an alpha channel
HasAlphaChannel(mode) == mode \in {"RGBA", "LA"}

\* C7: a saved image is 4-channel exactly when its source had an alpha
\* channel or was palette-indexed, and 3-channel otherwise.
C7_AlphaKeptIffPresent ==
    \A i \in 1..Len(writes) :
        (writes[i].outMode = "RGBA") <=>
            (HasAlphaChannel(writes[i].inMode) \/ writes[i].inMode = "P")

\* C8: every result entry is a .png/.jpg/.jpeg file that was in the
\* directory at scan time and was saved; files with any other extension are
\* never in the result, never opened and never removed.
C8_OnlyMatchingFilesTouched ==
    /\ \A i \in 1..Len(converted) :
          /\ converted[i][1] \in MatchingAtScan
          /\ WrittenFrom(converted[i][1])
    /\ ResultSources \subseteq MatchingAtScan
    /\ \A n \in opened \cup unlinked : n \in MatchingAtScan
    /\ \A n \in DOMAIN dir0 : ~IsSourceName(n) => n \in DOMAIN dir

C8_Witness ==
    /\ pc = "done"
    /\ Len(result) >= 1
    /\ BPNG \in DOMAIN dir0
    /\ DGif \in DOMAIN dir0

\* C9: every source the run has removed was saved first and has its .webp
\* sibling in the directory; a source whose open or encode failed is not
\* removed.
C9_DeleteOnlyAfterSave ==
    /\ \A n \in unlinked :
          /\ WrittenFrom(n)
          /\ WithSuffix(n, DotWebp) \in DOMAIN dir
    /\ err \in {"decode", "encode"} =>
          /\ source_files[idx] \notin unlinked
          /\ source_files[idx] \in DOMAIN dir

C9_Witness ==
    /\ err = "write"
    /\ \E n \in unlinked : dir[WithSuffix(n, DotWebp)].fmt = "partial"

\* C10: a failed run returns nothing and prints nothing; lines are printed
\* only after the whole batch succeeded, one per result entry, and the last
\* line carries their count.
C10_NoPartialOutput ==
    /\ err # "" => (~returned /\ stdout = <<>> /\ result = <<>>)
    /\ stdout # <<>> =>
          /\ returned
          /\ Len(converted) = Len(source_files)
          /\ Len(PairLines) <= Len(result)
    /\ pc = "done" =>
          /\ Len(stdout) = Len(result) + 1
          /\ Len(PairLines) = Len(result)
          /\ stdout[Len(stdout)] = <<"converted", Len(PairLines)>>

C10_Witness ==
    /\ err # ""
    /\ delete_original
    /\ Len(converted) >= 1
    /\ unlinked # {}
    /\ stdout = <<>>

====
